---- MODULE Spec2Model ----
(***************************************************************************)
(* Model of the DDNS updater Lambda (handler.lambda_handler) and of the    *)
(* helpers in ddns_hostname_resolver/utils.py, together with the two       *)
(* external collaborators they call: the DNS resolver and the SSM          *)
(* Parameter Store.                                                        *)
(*                                                                         *)
(* An invocation of lambda_handler is split at its external calls:         *)
(*   Invoke  - read os.environ, validate the configuration                 *)
(*   Resolve - resolve_ddns_hostname and the "not resolved" early return   *)
(*   Get     - get_ssm_parameter                                           *)
(*   Commit  - the comparison, put_ssm_parameter, and the return           *)
(* The except clause of the handler is part of whichever step raises.      *)
(***************************************************************************)
EXTENDS Integers, Sequences, FiniteSets, TLC

VARIABLES
    environ,        \* os.environ of the Lambda: the two configuration values
    ssm,            \* Parameter Store: parameter name -> value, or NoParameter
    frame,          \* per invoker: position and locals of lambda_handler
    calls,          \* per invoker: the external calls of the current invocation, in order
    ssm_at_invoke,  \* per invoker: the Parameter Store when the invocation started
    seq,            \* per invoker: ordinal of the current invocation (0 = never invoked)
    overlapped,     \* per invoker: the invokers that were running during its invocation
    invocations,    \* number of invocations started so far
    last_resolved,  \* the address most recently obtained from DNS by any invocation
    ret,            \* direct calls of the utils functions: the last two calls and what they returned
    authorizer_seen, \* what the Authorizer's last read of the parameter gave it
    provisioned,    \* the Parameter Store before the first invocation
    resolved_ever,  \* every address DNS has given to an invocation so far
    settled         \* None, or the address DNS answers with from now on, the
                    \* store no longer failing either

vars == <<environ, ssm, frame, calls, ssm_at_invoke, seq, overlapped,
          invocations, last_resolved, ret, authorizer_seen, provisioned,
          resolved_ever, settled>>

----------------------------------------------------------------------------
(* Bounds *)

MaxInvocations == 3
MaxAnswers == 2

----------------------------------------------------------------------------
(* Values *)

None == "<None>"
NoParameter == "<no parameter>"

Invokers == {1, 2}

Hostname == "home.example.com"
HostnameValues == {None, "", Hostname}

ParamName == "/my-ddns-updater/current-home-ip"
OtherParamName == "/test/parameter"
ParamNames == {ParamName, OtherParamName}
ParamNameValues == {None, "", ParamName}

Placeholder == "0.0.0.0"
Addresses == {"203.0.113.5", "198.51.100.9"}
ParamValues == {Placeholder} \cup Addresses

\* An A record as the resolver returns it; str() of it is its address text.
ARecords == [address : Addresses]

str(rdata) == rdata.address

\* What resolver.resolve(hostname, "A") does: raise, or return an answer.
AnswerSeqs == UNION {[1..n -> ARecords] : n \in 0..MaxAnswers}
DnsReplies ==
    [raises : {"NoAnswer", "NXDOMAIN", "LifetimeTimeout"}, answers : {<<>>}]
    \cup [raises : {None}, answers : AnswerSeqs]

\* What can go wrong in a Parameter Store call, besides ParameterNotFound.
GetFaults == {"none", "NoRegionError", "AccessDeniedException"}
PutFaults == {"none", "NoRegionError", "AccessDeniedException", "ReadTimeoutError"}

----------------------------------------------------------------------------
(* Outcome of a Python call: a returned value or a raised exception *)

Return(v) == [raised |-> FALSE, value |-> v, exc |-> None]
Raise(e) == [raised |-> TRUE, value |-> None, exc |-> e]

\* Python truthiness of an Optional[str]
Truthy(v) == v # None /\ v # ""

----------------------------------------------------------------------------
(* utils.py *)

\* boto3.client("ssm"); fails when the client cannot be built
get_ssm_client(fault) ==
    IF fault = "NoRegionError" THEN Raise(fault) ELSE Return("ssm_client")

\* ssm_client.get_parameter(Name=..., WithDecryption=False)
GetParameter(store, Name, fault) ==
    IF fault # "none" THEN Raise(fault)
    ELSE IF store[Name] = NoParameter THEN Raise("ParameterNotFound")
    ELSE Return(store[Name])

\* ssm_client.put_parameter(Name=..., Value=..., Type="String", Overwrite=True):
\* the store after the call and whether the call raised.  A rejected request
\* leaves the store alone; a lost response raises although the write was applied.
PutParameter(store, Name, Value, fault) ==
    CASE fault = "none" ->
            [store |-> [store EXCEPT ![Name] = Value], out |-> Return(None)]
      [] fault = "ReadTimeoutError" ->
            [store |-> [store EXCEPT ![Name] = Value], out |-> Raise(fault)]
      [] OTHER ->
            [store |-> store, out |-> Raise(fault)]

\* Variant: the generic except clause re-raises, as the store helpers do
resolve_ddns_hostname_Reraise(hostname, reply) ==
    IF reply.raises = None
    THEN IF Len(reply.answers) = 0
         THEN Raise("IndexError")
         ELSE Return(str(reply.answers[1]))
    ELSE IF reply.raises = "NoAnswer" THEN Return(None)
    ELSE IF reply.raises = "NXDOMAIN" THEN Return(None)
    ELSE Raise(reply.raises)

resolve_ddns_hostname(hostname, reply) ==
    IF reply.raises = None
    THEN IF Len(reply.answers) = 0
         THEN Return(None)                  \* IndexError -> except Exception
         ELSE Return(str(reply.answers[1]))
    ELSE IF reply.raises = "NoAnswer" THEN Return(None)
    ELSE IF reply.raises = "NXDOMAIN" THEN Return(None)
    ELSE Return(None)                       \* except Exception

\* Variant: every failure of the read is swallowed and reported as not-found
get_ssm_parameter_Swallow(store, param_name, fault) ==
    LET client == get_ssm_client(fault) IN
    IF client.raised
    THEN Return(None)
    ELSE LET response == GetParameter(store, param_name, fault) IN
         IF ~response.raised THEN Return(response.value) ELSE Return(None)

get_ssm_parameter(store, param_name, fault) ==
    LET client == get_ssm_client(fault) IN
    IF client.raised
    THEN \* ssm_client is unbound when the except clause is evaluated
         Raise("UnboundLocalError")
    ELSE LET response == GetParameter(store, param_name, fault) IN
         IF ~response.raised THEN Return(response.value)
         ELSE IF response.exc = "ParameterNotFound" THEN Return(None)
         ELSE Raise(response.exc)

\* Variant: a failure is logged and reported by returning False, not re-raised
put_ssm_parameter_ReturnFalse(store, param_name, new_value, fault) ==
    LET client == get_ssm_client(fault) IN
    IF client.raised
    THEN [store |-> store, out |-> Return(FALSE)]
    ELSE LET response == PutParameter(store, param_name, new_value, fault) IN
         [store |-> response.store, out |-> Return(~response.out.raised)]

\* Variant: Overwrite is not set, an existing parameter keeps its value
put_ssm_parameter_NoOverwrite(store, param_name, new_value, fault) ==
    LET client == get_ssm_client(fault) IN
    IF client.raised
    THEN [store |-> store, out |-> Raise(client.exc)]
    ELSE LET kept == IF store[param_name] = NoParameter THEN new_value
                     ELSE store[param_name]
             response == PutParameter(store, param_name, kept, fault) IN
         IF ~response.out.raised
         THEN [store |-> response.store, out |-> Return(TRUE)]
         ELSE [store |-> response.store, out |-> Raise(response.out.exc)]

\* Variant: the parameter is written under a fixed name, not the one passed in
put_ssm_parameter_FixedName(store, param_name, new_value, fault) ==
    LET client == get_ssm_client(fault) IN
    IF client.raised
    THEN [store |-> store, out |-> Raise(client.exc)]
    ELSE LET response == PutParameter(store, "/test/parameter", new_value, fault) IN
         IF ~response.out.raised
         THEN [store |-> response.store, out |-> Return(TRUE)]
         ELSE [store |-> response.store, out |-> Raise(response.out.exc)]

\* Returns the outcome of the call and the store it leaves behind.
put_ssm_parameter(store, param_name, new_value, fault) ==
    LET client == get_ssm_client(fault) IN
    IF client.raised
    THEN [store |-> store, out |-> Raise(client.exc)]
    ELSE LET response == PutParameter(store, param_name, new_value, fault) IN
         IF ~response.out.raised
         THEN [store |-> response.store, out |-> Return(TRUE)]
         ELSE [store |-> response.store, out |-> Raise(response.out.exc)]

----------------------------------------------------------------------------
(* handler.py *)

MissingConfiguration == [statusCode |-> 500, body |-> "Missing configuration."]
CouldNotResolve == [statusCode |-> 200, body |-> "Could not resolve current public IP."]
AlreadyUpToDate == [statusCode |-> 200, body |-> "SSM parameter already up to date."]
Updated == [statusCode |-> 200, body |-> "SSM parameter updated successfully."]
\* Variant: the except clause reports success
UnhandledError_Status200(e) == [statusCode |-> 200, body |-> "Unhandled error: " \o e]

UnhandledError(e) == [statusCode |-> 500, body |-> "Unhandled error: " \o e]

\* Variant: the hostname is left out of the check
ConfigurationMissing_KeyOnly(ddns_hostname, home_ip_ssm_param_name) ==
    ~Truthy(home_ip_ssm_param_name)

\* if not all([ddns_hostname, home_ip_ssm_param_name])
ConfigurationMissing(ddns_hostname, home_ip_ssm_param_name) ==
    ~(Truthy(ddns_hostname) /\ Truthy(home_ip_ssm_param_name))

\* Variant: the check for an unresolved address is missing
NotResolved_Never(current_resolved_ip) == FALSE

\* if not current_resolved_ip
NotResolved(current_resolved_ip) == ~Truthy(current_resolved_ip)

\* Variant: a missing parameter counts as up to date
UpToDate_OrMissing(current_ip_in_ssm, current_resolved_ip) ==
    current_ip_in_ssm = None \/ current_ip_in_ssm = current_resolved_ip

\* Variant: the comparison is inverted
UpToDate_Inverted(current_ip_in_ssm, current_resolved_ip) ==
    current_ip_in_ssm # current_resolved_ip

\* if current_ip_in_ssm == current_resolved_ip
UpToDate(current_ip_in_ssm, current_resolved_ip) ==
    current_ip_in_ssm = current_resolved_ip

NoResult == [statusCode |-> 0, body |-> ""]

\* The Authorizer has not read the parameter yet
NotRead == [raised |-> FALSE, value |-> None, exc |-> "not read"]

FreshFrame ==
    [pc |-> "idle", ddns_hostname |-> None, home_ip_ssm_param_name |-> None,
     current_resolved_ip |-> None, current_ip_in_ssm |-> None, result |-> NoResult]

Running(p) == frame[p].pc \in {"resolve", "get", "commit"}

\* One external call of an invocation: what was called on which name, how the
\* collaborator behaved (the DNS reply kind or the store fault), the value
\* returned (resolve, get) or passed (put), and "returned" or the exception
\* that came out of the utils function.
Call(op, name, value, environment, outcome) ==
    [op |-> op, name |-> name, value |-> value, environment |-> environment,
     outcome |-> outcome]

Outcome(r) == IF r.raised THEN r.exc ELSE "returned"

\* What the collaborators can do at the moment: anything, until the
\* environment has settled
DnsRepliesNow ==
    IF settled = None THEN DnsReplies
    ELSE {reply \in DnsReplies :
            /\ reply.raises = None
            /\ Len(reply.answers) > 0
            /\ str(reply.answers[1]) = settled}

GetFaultsNow == IF settled = None THEN GetFaults ELSE {"none"}

PutFaultsNow == IF settled = None THEN PutFaults ELSE {"none"}

----------------------------------------------------------------------------
(* State *)

Init ==
    /\ environ \in [DDNS_HOSTNAME : HostnameValues,
                    HOME_IP_SSM_PARAM_NAME : ParamNameValues]
    /\ ssm \in [ParamNames -> ParamValues \cup {NoParameter}]
    /\ frame = [p \in Invokers |-> FreshFrame]
    /\ calls = [p \in Invokers |-> <<>>]
    /\ ssm_at_invoke = [p \in Invokers |-> ssm]
    /\ seq = [p \in Invokers |-> 0]
    /\ overlapped = [p \in Invokers |-> {}]
    /\ invocations = 0
    /\ last_resolved = None
    /\ ret = <<>>
    /\ authorizer_seen = NotRead
    /\ provisioned = ssm
    /\ resolved_ever = {}
    /\ settled = None

\* lambda_handler, lines 37-46: the configuration is read and checked; n is
\* the ordinal of the invocation
Begin(p, n) ==
    /\ invocations' = n
    /\ seq' = [seq EXCEPT ![p] = n]
    /\ calls' = [calls EXCEPT ![p] = <<>>]
    /\ ssm_at_invoke' = [ssm_at_invoke EXCEPT ![p] = ssm]
    /\ LET others == {q \in Invokers \ {p} : Running(q)} IN
       overlapped' = [q \in Invokers |->
                        IF q = p THEN others
                        ELSE IF q \in others THEN overlapped[q] \cup {p}
                        ELSE overlapped[q]]
    /\ LET ddns_hostname == environ.DDNS_HOSTNAME
           home_ip_ssm_param_name == environ.HOME_IP_SSM_PARAM_NAME
           f == [FreshFrame EXCEPT !.ddns_hostname = ddns_hostname,
                                   !.home_ip_ssm_param_name = home_ip_ssm_param_name]
       IN frame' = [frame EXCEPT ![p] =
            IF ConfigurationMissing(ddns_hostname, home_ip_ssm_param_name)
            THEN [f EXCEPT !.pc = "done", !.result = MissingConfiguration]
            ELSE [f EXCEPT !.pc = "resolve"]]
    /\ UNCHANGED <<environ, ssm, last_resolved, ret, authorizer_seen, provisioned,
                   resolved_ever, settled>>

\* The timer fires and lambda_handler starts
Invoke(p) ==
    /\ ~Running(p)
    /\ invocations < MaxInvocations
    /\ Begin(p, invocations + 1)

\* The scheduler's assumption: invocations do not overlap
InvokeAlone(p) ==
    /\ \A q \in Invokers : ~Running(q)
    /\ Invoke(p)

\* lambda_handler, lines 48-58 (and 84-88 should the call raise)
Resolve(p) ==
    /\ frame[p].pc = "resolve"
    /\ \E reply \in DnsRepliesNow :
         LET r == resolve_ddns_hostname(frame[p].ddns_hostname, reply)
             kind == IF reply.raises # None THEN reply.raises
                     ELSE IF Len(reply.answers) = 0 THEN "IndexError" ELSE "answer"
         IN /\ calls' = [calls EXCEPT ![p] =
                   Append(@, Call("resolve", frame[p].ddns_hostname, r.value, kind,
                                  Outcome(r)))]
            /\ resolved_ever' = IF kind = "answer"
                                THEN resolved_ever \cup {str(reply.answers[1])}
                                ELSE resolved_ever
            /\ IF r.raised
               THEN /\ frame' = [frame EXCEPT ![p].pc = "done",
                                              ![p].result = UnhandledError(r.exc)]
                    /\ UNCHANGED last_resolved
               ELSE IF NotResolved(r.value)
               THEN /\ frame' = [frame EXCEPT ![p].pc = "done",
                                              ![p].current_resolved_ip = r.value,
                                              ![p].result = CouldNotResolve]
                    /\ UNCHANGED last_resolved
               ELSE /\ frame' = [frame EXCEPT ![p].pc = "get",
                                              ![p].current_resolved_ip = r.value]
                    /\ last_resolved' = r.value
    /\ UNCHANGED <<environ, ssm, ssm_at_invoke, seq, overlapped, invocations, ret,
                   authorizer_seen, provisioned, settled>>

\* lambda_handler, line 61 (and 84-88 should the call raise)
Get(p) ==
    /\ frame[p].pc = "get"
    /\ \E fault \in GetFaultsNow :
         LET r == get_ssm_parameter(ssm, frame[p].home_ip_ssm_param_name, fault)
         IN /\ calls' = [calls EXCEPT ![p] =
                   Append(@, Call("get", frame[p].home_ip_ssm_param_name, r.value,
                                  fault, Outcome(r)))]
            /\ frame' = [frame EXCEPT ![p] =
                 IF r.raised
                 THEN [@ EXCEPT !.pc = "done", !.result = UnhandledError(r.exc)]
                 ELSE [@ EXCEPT !.pc = "commit", !.current_ip_in_ssm = r.value]]
    /\ UNCHANGED <<environ, ssm, ssm_at_invoke, seq, overlapped, invocations,
                   last_resolved, ret, authorizer_seen, provisioned,
                   resolved_ever, settled>>

\* lambda_handler, lines 64-82 (and 84-88 should the call raise)
Commit(p) ==
    /\ frame[p].pc = "commit"
    /\ IF UpToDate(frame[p].current_ip_in_ssm, frame[p].current_resolved_ip)
       THEN /\ frame' = [frame EXCEPT ![p].pc = "done", ![p].result = AlreadyUpToDate]
            /\ UNCHANGED <<ssm, calls>>
       ELSE \E fault \in PutFaultsNow :
              LET r == put_ssm_parameter(ssm, frame[p].home_ip_ssm_param_name,
                                         frame[p].current_resolved_ip, fault)
              IN /\ ssm' = r.store
                 /\ calls' = [calls EXCEPT ![p] =
                        Append(@, Call("put", frame[p].home_ip_ssm_param_name,
                                       frame[p].current_resolved_ip,
                                       fault, Outcome(r.out)))]
                 /\ frame' = [frame EXCEPT ![p].pc = "done", ![p].result =
                        IF r.out.raised THEN UnhandledError(r.out.exc) ELSE Updated]
    /\ UNCHANGED <<environ, ssm_at_invoke, seq, overlapped, invocations,
                   last_resolved, ret, authorizer_seen, provisioned,
                   resolved_ever, settled>>

\* Non-overlapping invocations, as the five-minute schedule delivers them
Next ==
    \E p \in Invokers : InvokeAlone(p) \/ Resolve(p) \/ Get(p) \/ Commit(p)

Spec == Init /\ [][Next]_vars

\* Overlapping invocations (a retried trigger): any interleaving of the steps
NextOverlap ==
    \E p \in Invokers : Invoke(p) \/ Resolve(p) \/ Get(p) \/ Commit(p)

SpecOverlap == Init /\ [][NextOverlap]_vars

\* The deployed stack: the parameter it creates is the only one there is
InitDeployed ==
    /\ Init
    /\ ssm[OtherParamName] = NoParameter

\* The Authorizer: its role is granted ssm:GetParameter on the parameter and
\* nothing else, so all it can do to the store is read it.
AuthorizerRead ==
    /\ \E fault \in GetFaults :
          authorizer_seen' = GetParameter(ssm, ParamName, fault)
    /\ UNCHANGED <<environ, ssm, frame, calls, ssm_at_invoke, seq, overlapped,
                   invocations, last_resolved, ret, provisioned, resolved_ever,
                   settled>>

\* Updater invocations in any interleaving, and Authorizer reads in between
NextLifecycle ==
    \/ \E p \in Invokers : Invoke(p) \/ Resolve(p) \/ Get(p) \/ Commit(p)
    \/ AuthorizerRead

SpecLifecycle == InitDeployed /\ [][NextLifecycle]_vars

\* The schedule keeps firing every five minutes, for ever; invocations do
\* not overlap.  The ordinals stop counting at MaxInvocations.
TimerFires(p) ==
    /\ \A q \in Invokers : ~Running(q)
    /\ Begin(p, IF invocations < MaxInvocations THEN invocations + 1 ELSE invocations)

\* From here on DNS answers with address and the store's calls succeed
Settle(address) ==
    /\ settled = None
    /\ settled' = address
    /\ UNCHANGED <<environ, ssm, frame, calls, ssm_at_invoke, seq, overlapped,
                   invocations, last_resolved, ret, authorizer_seen, provisioned,
                   resolved_ever>>

NextTimer ==
    \/ \E p \in Invokers : TimerFires(p) \/ Resolve(p) \/ Get(p) \/ Commit(p)
    \/ \E address \in Addresses : Settle(address)

\* The rule fires again and again, and a started handler runs to its return
SpecTimer ==
    /\ InitDeployed
    /\ [][NextTimer]_vars
    /\ WF_vars(\E p \in Invokers : TimerFires(p))
    /\ \A p \in Invokers : WF_vars(Resolve(p) \/ Get(p) \/ Commit(p))

----------------------------------------------------------------------------
(* The utils functions called directly on the store, as tests/unit does *)

Remember(call) == IF Len(ret) = 2 THEN <<ret[2], call>> ELSE Append(ret, call)

\* A direct call: the function, its arguments, the fault injected into the
\* store, the parameter's value before the call, and the call's outcome.
DirectCall(op, name, value, fault, before, out) ==
    [op |-> op, name |-> name, value |-> value, fault |-> fault,
     before |-> before, out |-> out]

CallPut(name, value, fault) ==
    LET r == put_ssm_parameter(ssm, name, value, fault) IN
    /\ ssm' = r.store
    /\ ret' = Remember(DirectCall("put", name, value, fault, ssm[name], r.out))
    /\ UNCHANGED <<environ, frame, calls, ssm_at_invoke, seq, overlapped,
                   invocations, last_resolved, authorizer_seen, provisioned,
                   resolved_ever, settled>>

CallGet(name, fault) ==
    LET r == get_ssm_parameter(ssm, name, fault) IN
    /\ ret' = Remember(DirectCall("get", name, None, fault, ssm[name], r))
    /\ UNCHANGED <<environ, ssm, frame, calls, ssm_at_invoke, seq, overlapped,
                   invocations, last_resolved, authorizer_seen, provisioned,
                   resolved_ever, settled>>

NextUtils ==
    \/ \E name \in ParamNames, value \in ParamValues, fault \in PutFaults :
          CallPut(name, value, fault)
    \/ \E name \in ParamNames, fault \in GetFaults : CallGet(name, fault)

\* The test process sets neither configuration value (tests/conftest.py)
InitUtils ==
    /\ Init
    /\ environ = [DDNS_HOSTNAME |-> None, HOME_IP_SSM_PARAM_NAME |-> None]

SpecUtils == InitUtils /\ [][NextUtils]_vars

----------------------------------------------------------------------------
(* Reading the history of an invocation *)

Done(p) == frame[p].pc = "done"

\* p's invocation is the most recent one: nothing has run since it started
Latest(p) == seq[p] > 0 /\ seq[p] = invocations

CallsOf(p, op) == {i \in 1..Len(calls[p]) : calls[p][i].op = op}

ResolveFailures == {"NoAnswer", "NXDOMAIN", "LifetimeTimeout", "IndexError"}

\* The invocation obtained an address from DNS
Resolved(p) ==
    \E i \in CallsOf(p, "resolve") :
        calls[p][i].environment = "answer" /\ calls[p][i].value = frame[p].current_resolved_ip

\* The invocation's Get completed, with a value or with not-found
GetCompleted(p) ==
    \E i \in CallsOf(p, "get") :
        calls[p][i].environment = "none" /\ calls[p][i].value = frame[p].current_ip_in_ssm

\* The invocation's Get hit a store failure other than not-found
GetFailed(p) == \E i \in CallsOf(p, "get") : calls[p][i].environment # "none"

PutFailed(p) == \E i \in CallsOf(p, "put") : calls[p][i].environment # "none"

PutSucceeded(p) == \E i \in CallsOf(p, "put") : calls[p][i].environment = "none"

\* Exactly one Set call, on the configured name, with the resolved address
OnePutOfResolved(p) ==
    /\ Cardinality(CallsOf(p, "put")) = 1
    /\ \A i \in CallsOf(p, "put") :
          /\ calls[p][i].value = frame[p].current_resolved_ip
          /\ calls[p][i].name = environ.HOME_IP_SSM_PARAM_NAME

NeedsUpdate(p) ==
    /\ Done(p) /\ Resolved(p) /\ GetCompleted(p)
    /\ frame[p].current_ip_in_ssm # frame[p].current_resolved_ip

----------------------------------------------------------------------------
(* Claims *)

\* C1 as stated: every invocation that resolves an address X and reads a
\* stored value Y # X (or not-found) makes exactly one Set call, with value X,
\* and returns 200 "updated".
C1_AsStated ==
    \A p \in Invokers :
        NeedsUpdate(p) => OnePutOfResolved(p) /\ frame[p].result = Updated

\* C1 amended: every invocation that resolves an address X and reads a stored
\* value Y # X (or not-found) makes exactly one Set call, with value X; it
\* returns 200 "updated" when that Set call succeeds and status 500 when the
\* Set call raises.
C1_OneSetOfResolved ==
    \A p \in Invokers :
        NeedsUpdate(p) =>
            /\ OnePutOfResolved(p)
            /\ PutSucceeded(p) => frame[p].result = Updated
            /\ PutFailed(p) => frame[p].result.statusCode = 500

C1_Witness ==
    \E p \in Invokers :
        /\ NeedsUpdate(p) /\ frame[p].current_ip_in_ssm = None
        /\ PutSucceeded(p) /\ frame[p].result = Updated
        /\ ssm[ParamName] = frame[p].current_resolved_ip

\* C2: an invocation that resolves X and whose Get returns X makes no Set
\* call, leaves the stored value as it was, and returns 200 "already up to date".
C2_NoSetWhenEqual ==
    \A p \in Invokers :
        (Done(p) /\ Resolved(p) /\ GetCompleted(p)
            /\ frame[p].current_ip_in_ssm = frame[p].current_resolved_ip) =>
            /\ CallsOf(p, "put") = {}
            /\ frame[p].result = AlreadyUpToDate
            /\ Latest(p) => ssm = ssm_at_invoke[p]

C2_Witness ==
    \E p \in Invokers :
        /\ Done(p) /\ Resolved(p) /\ GetCompleted(p) /\ Latest(p)
        /\ frame[p].current_ip_in_ssm = frame[p].current_resolved_ip
        /\ frame[p].result = AlreadyUpToDate

\* C3: when resolution fails (no A record, non-existent name, any other
\* error) resolve_ddns_hostname returns None without raising, the invocation
\* makes no Get and no Set call, leaves the store alone, and returns 200
\* "could not resolve", the same result for every kind of failure.
C3_UnresolvedSkips ==
    \A p \in Invokers :
        \A i \in CallsOf(p, "resolve") :
            calls[p][i].environment \in ResolveFailures =>
                /\ calls[p][i].outcome = "returned" /\ calls[p][i].value = None
                /\ Done(p)
                /\ Len(calls[p]) = 1
                /\ frame[p].result = CouldNotResolve
                /\ Latest(p) => ssm = ssm_at_invoke[p]

C3_Witness ==
    \E p \in Invokers :
        /\ Done(p) /\ frame[p].result = CouldNotResolve
        /\ \E i \in CallsOf(p, "resolve") : calls[p][i].environment = "LifetimeTimeout"

\* C4: when DDNS_HOSTNAME or HOME_IP_SSM_PARAM_NAME is unset or empty, an
\* invocation returns 500 "Missing configuration." and makes no DNS
\* resolution, no Get and no Set.
C4_MissingConfiguration ==
    \A p \in Invokers :
        (seq[p] > 0 /\ (environ.DDNS_HOSTNAME \in {None, ""}
                          \/ environ.HOME_IP_SSM_PARAM_NAME \in {None, ""})) =>
            /\ Done(p)
            /\ frame[p].result = MissingConfiguration
            /\ calls[p] = <<>>
            /\ Latest(p) => ssm = ssm_at_invoke[p]

C4_Witness ==
    \E p \in Invokers :
        /\ seq[p] > 0 /\ environ.DDNS_HOSTNAME = "" /\ environ.HOME_IP_SSM_PARAM_NAME = ParamName
        /\ frame[p].result = MissingConfiguration

SuccessiveSameAddress(p, q) ==
    /\ seq[p] > 0 /\ seq[q] = seq[p] + 1
    /\ Done(p) /\ Done(q)
    /\ Resolved(p) /\ Resolved(q)
    /\ frame[p].current_resolved_ip = frame[q].current_resolved_ip

StoreCallRaised(p) ==
    \E i \in CallsOf(p, "get") \cup CallsOf(p, "put") : calls[p][i].outcome # "returned"

\* C8: every invocation runs to a return of {statusCode, body} and never
\* raises; the status is 200 exactly for "could not resolve", "already up to
\* date" and "updated", and 500 exactly for a configuration error or an
\* exception raised by a store call.
C8_StructuredOutcome ==
    \A p \in Invokers :
        /\ Running(p) => ENABLED (Resolve(p) \/ Get(p) \/ Commit(p))
        /\ Done(p) =>
              /\ frame[p].result.statusCode \in {200, 500}
              /\ frame[p].result.statusCode = 200 <=>
                    frame[p].result \in {CouldNotResolve, AlreadyUpToDate, Updated}
              /\ frame[p].result.statusCode = 500 <=>
                    \/ /\ frame[p].result = MissingConfiguration
                       /\ ~(Truthy(environ.DDNS_HOSTNAME)
                              /\ Truthy(environ.HOME_IP_SSM_PARAM_NAME))
                    \/ /\ StoreCallRaised(p)
                       /\ \E i \in 1..Len(calls[p]) :
                             frame[p].result = UnhandledError(calls[p][i].outcome)

C8_Witness ==
    \E p, q \in Invokers :
        /\ Done(p) /\ frame[p].result.statusCode = 500 /\ StoreCallRaised(p)
        /\ Done(q) /\ frame[q].result = Updated

\* p and q ran overlapping invocations on the same name, and each of them got
\* through its resolve, Get and (where needed) Set without a failure
OverlappedAndFinished(p, q) ==
    /\ p # q /\ q \in overlapped[p] /\ p \in overlapped[q]
    /\ Done(p) /\ Done(q)
    /\ frame[p].home_ip_ssm_param_name = frame[q].home_ip_ssm_param_name
    /\ frame[p].result \in {Updated, AlreadyUpToDate}
    /\ frame[q].result \in {Updated, AlreadyUpToDate}

C10_RoundTrip ==
    \A i \in 1..Len(ret) :
        /\ (ret[i].op = "put" /\ ret[i].fault = "none") => ret[i].out = Return(TRUE)
        /\ (ret[i].op = "get" /\ ret[i].fault = "none" /\ ret[i].before = NoParameter) =>
              ret[i].out = Return(None)
        /\ (i > 1 /\ ret[i - 1].op = "put" /\ ret[i - 1].fault = "none"
                /\ ret[i].op = "get" /\ ret[i].fault = "none"
                /\ ret[i].name = ret[i - 1].name) =>
              ret[i].out = Return(ret[i - 1].value)

C10_Witness ==
    /\ Len(ret) = 2
    /\ ret[1].op = "put" /\ ret[1].fault = "none" /\ ret[1].out = Return(TRUE)
    /\ ret[1].before \notin {NoParameter, ret[1].value}
    /\ ret[2].op = "get" /\ ret[2].name = ret[1].name
    /\ ret[2].out = Return(ret[1].value)

\* The step ends p's invocation
Ends(p) == frame[p].pc # "done" /\ frame'[p].pc = "done"

\* C11: the stored value changes only in an Updater step that writes the
\* resolved address after a completed read that gave something else; a step
\* ending an invocation in "could not resolve", "already up to date",
\* "Missing configuration." or a failed read leaves the store as it is, and so
\* does every Authorizer read; a parameter that exists never stops existing.
C11_Lifecycle ==
    [][/\ ssm' # ssm =>
             \E p \in Invokers :
                 /\ frame[p].pc = "commit" /\ Ends(p)
                 /\ Resolved(p) /\ GetCompleted(p)
                 /\ frame[p].current_ip_in_ssm # frame[p].current_resolved_ip
                 /\ ssm' = [ssm EXCEPT ![frame[p].home_ip_ssm_param_name] =
                                          frame[p].current_resolved_ip]
       /\ \A p \in Invokers :
             (Ends(p) /\ (\/ frame'[p].result \in {CouldNotResolve, AlreadyUpToDate,
                                                    MissingConfiguration}
                          \/ \E i \in 1..Len(calls'[p]) :
                                calls'[p][i].op = "get" /\ calls'[p][i].environment # "none"))
                 => ssm' = ssm
       /\ authorizer_seen' # authorizer_seen => ssm' = ssm
       /\ \A name \in ParamNames : ssm[name] # NoParameter => ssm'[name] # NoParameter
      ]_vars

\* An update has replaced the provisioned placeholder and the Authorizer has
\* read the new value
C11_Witness ==
    \E p \in Invokers :
        /\ Done(p) /\ frame[p].result = Updated
        /\ ssm_at_invoke[p][ParamName] = Placeholder
        /\ ssm[ParamName] = frame[p].current_resolved_ip
        /\ authorizer_seen = Return(frame[p].current_resolved_ip)

\* The operations of p's invocation so far, in the order they were called
OpsOf(p) == [i \in 1..Len(calls[p]) |-> calls[p][i].op]

\* C12: an invocation calls resolve, then Get, then Set, each at most once
\* and in that order, and then returns; Get is called only after a resolution
\* that gave an address and Set only after a Get that completed (with a value
\* or not-found) in the same invocation; a call that failed is not repeated.
C12_FixedOrder ==
    \A p \in Invokers :
        /\ OpsOf(p) \in {<<>>, <<"resolve">>, <<"resolve", "get">>,
                          <<"resolve", "get", "put">>}
        /\ Len(calls[p]) >= 2 =>
              /\ calls[p][1].environment = "answer"
              /\ calls[p][1].outcome = "returned"
              /\ Truthy(calls[p][1].value)
        /\ Len(calls[p]) >= 3 =>
              /\ calls[p][2].environment = "none"
              /\ calls[p][2].outcome = "returned"
        /\ Len(calls[p]) = 3 => Done(p)
        /\ frame[p].pc = "resolve" => Len(calls[p]) = 0
        /\ frame[p].pc = "get" => Len(calls[p]) = 1
        /\ frame[p].pc = "commit" => Len(calls[p]) = 2
        /\ \A i \in 1..Len(calls[p]) :
              (calls[p][i].outcome # "returned" \/ calls[p][i].environment \in ResolveFailures)
                  => (i = Len(calls[p]) /\ Done(p))

\* An invocation that went through all three calls, the last of which failed
C12_Witness ==
    \E p \in Invokers :
        /\ Done(p) /\ OpsOf(p) = <<"resolve", "get", "put">>
        /\ calls[p][2].value = None
        /\ calls[p][3].outcome = "AccessDeniedException"
        /\ frame[p].result.statusCode = 500

\* C13: under any interleaving, each parameter holds either what it held
\* before the first invocation or a non-empty address that DNS gave to some
\* invocation earlier; every Set call passes such an address, and an
\* invocation whose resolution gave nothing ends before any store call.
C13_Provenance ==
    /\ \A name \in ParamNames :
          \/ ssm[name] = provisioned[name]
          \/ ssm[name] \in resolved_ever /\ Truthy(ssm[name]) /\ ssm[name] # NoParameter
    /\ \A p \in Invokers :
          /\ \A i \in CallsOf(p, "put") :
                calls[p][i].value \in resolved_ever /\ Truthy(calls[p][i].value)
          /\ \A i \in CallsOf(p, "resolve") :
                ~Truthy(calls[p][i].value) => Done(p) /\ Len(calls[p]) = 1

\* The store holds an address written by an earlier invocation while a later
\* invocation, whose resolution failed, has left it alone
C13_Witness ==
    \E p \in Invokers :
        /\ Done(p) /\ frame[p].result = CouldNotResolve /\ Latest(p)
        /\ ssm[ParamName] \in resolved_ever
        /\ ssm[ParamName] # provisioned[ParamName]

Configured ==
    Truthy(environ.DDNS_HOSTNAME) /\ Truthy(environ.HOME_IP_SSM_PARAM_NAME)

\* No step writes the store or makes a Set call, and an invocation that ends
\* reports "already up to date"
Quiet ==
    /\ ssm' = ssm
    /\ \A p \in Invokers :
          /\ CallsOf(p, "put")' \subseteq CallsOf(p, "put")
          /\ Ends(p) => frame'[p].result = AlreadyUpToDate

\* C14: with the timer firing again and again and invocations not
\* overlapping, once DNS answers with the same address X every time and the
\* store's calls no longer fail, the parameter eventually holds X and keeps
\* holding it, and from some point on every invocation that ends reports
\* "already up to date" and no step makes a Set call, no matter what failed
\* before.
C14_SelfHealing ==
    /\ \A address \in Addresses :
          (Configured /\ settled = address) ~> [](ssm[ParamName] = address)
    /\ <>(Configured /\ settled # None) => <>[][Quiet]_vars

\* After a failed read and a failed write the environment has settled, and
\* the next invocations have written the address and found it up to date
C14_Witness ==
    \E p, q \in Invokers :
        /\ p # q /\ settled # None /\ ssm[ParamName] = settled
        /\ provisioned[ParamName] # settled
        /\ Done(p) /\ frame[p].result = Updated
        /\ Done(q) /\ frame[q].result = AlreadyUpToDate /\ seq[q] > seq[p]

====
